---- MODULE Spec2Model ----
(***************************************************************************)
(* Rule-load model of the fast_pattern keyword of the detection engine.    *)
(*                                                                         *)
(* One signature at a time is parsed by SigInit: every keyword of the rule *)
(* calls its Setup function on the Signature under construction.  The      *)
(* Signature holds one ordered SigMatch list per buffer context            *)
(* (s->sm_lists[], s->sm_lists_tail[]); a content-bearing SigMatch owns a  *)
(* DetectContentData (flags, content_len, fp_chop_offset, fp_chop_len).    *)
(* DetectFastPatternSetup is translated from the source; the Setup         *)
(* functions of the other keywords live outside the sources at hand and    *)
(* are modelled from the specification and the unit tests.                 *)
(***************************************************************************)
EXTENDS Integers, Sequences, FiniteSets, TLC

(***************************************************************************)
(* Bounds of the model.                                                    *)
(***************************************************************************)
MaxKeywords == 4      \* keywords per rule
MaxCalls == 3         \* calls of AffinityGetNextCPU per family
MaxLines == 3         \* lines of the protocols file

(***************************************************************************)
(* Program constants and machine integers.                                 *)
(*                                                                         *)
(* A C int is kept at its width of 32 bits as a pair <<hi, lo>> of 16-bit  *)
(* halves in two's complement: its value is hi * 65536 + lo, and it is     *)
(* negative when hi >= 32768.  A run of decimal digits of the argument is  *)
(* the same kind of pair, with hi unbounded above.                         *)
(***************************************************************************)
FP_LIMIT == 65535         \* the chop limit tested by DetectFastPatternSetup
HALF == 65536             \* 2^16: width of fp_chop_offset / fp_chop_len
SIGN_HI == 32768          \* hi half of INT_MIN: the sign bit of an int
NULL == -1                \* "no SigMatch"

IntOf(n) == << 0, n >>                     \* the int of a small natural
INT_MAX == << SIGN_HI - 1, HALF - 1 >>
IsNeg(a) == a[1] >= SIGN_HI
\* a > b on ints
IntGT(a, b) ==
    IF IsNeg(a) # IsNeg(b) THEN IsNeg(b)
    ELSE a[1] > b[1] \/ (a[1] = b[1] /\ a[2] > b[2])
\* a + b on 32 bits, wrapping
WrapAdd(a, b) ==
    LET lo == a[2] + b[2]
        carry == IF lo >= HALF THEN 1 ELSE 0
    IN  << (a[1] + b[1] + carry) % HALF, lo % HALF >>
\* (uint16_t) a
ToUint16(a) == a[2]

(***************************************************************************)
(* SigMatch list ids and SigMatch types.                                   *)
(***************************************************************************)
PMATCH == "DETECT_SM_LIST_PMATCH"
UMATCH == "DETECT_SM_LIST_UMATCH"
HCBDMATCH == "DETECT_SM_LIST_HCBDMATCH"
HHDMATCH == "DETECT_SM_LIST_HHDMATCH"
HRHDMATCH == "DETECT_SM_LIST_HRHDMATCH"
HMDMATCH == "DETECT_SM_LIST_HMDMATCH"
HCDMATCH == "DETECT_SM_LIST_HCDMATCH"

SMLists == {PMATCH, UMATCH, HCBDMATCH, HHDMATCH, HRHDMATCH, HMDMATCH, HCDMATCH}

\* DetectContentData flag bits
NEGATED == "DETECT_CONTENT_NEGATED"
DISTANCE == "DETECT_CONTENT_DISTANCE"
WITHIN == "DETECT_CONTENT_WITHIN"
OFFSET == "DETECT_CONTENT_OFFSET"
DEPTH == "DETECT_CONTENT_DEPTH"
FAST_PATTERN == "DETECT_CONTENT_FAST_PATTERN"
FAST_PATTERN_ONLY == "DETECT_CONTENT_FAST_PATTERN_ONLY"
FAST_PATTERN_CHOP == "DETECT_CONTENT_FAST_PATTERN_CHOP"

RelFlags == {DISTANCE, WITHIN, OFFSET, DEPTH}
FPFlags == {FAST_PATTERN, FAST_PATTERN_ONLY, FAST_PATTERN_CHOP}

\* The (sm type, sm list) pairs DetectFastPatternSetup hands to
\* SigMatchGetLastSMFromLists.
\* the search with the uricontent pair left out of the call
FastPatternSearchPairs_NoUri ==
    { <<"DETECT_CONTENT", PMATCH>>,
      <<"DETECT_AL_HTTP_CLIENT_BODY", HCBDMATCH>>,
      <<"DETECT_AL_HTTP_HEADER", HHDMATCH>>,
      <<"DETECT_AL_HTTP_RAW_HEADER", HRHDMATCH>>,
      <<"DETECT_AL_HTTP_METHOD", HMDMATCH>>,
      <<"DETECT_AL_HTTP_COOKIE", HCDMATCH>> }

FastPatternSearchPairs ==
    { <<"DETECT_CONTENT", PMATCH>>,
      <<"DETECT_URICONTENT", UMATCH>>,
      <<"DETECT_AL_HTTP_CLIENT_BODY", HCBDMATCH>>,
      <<"DETECT_AL_HTTP_HEADER", HHDMATCH>>,
      <<"DETECT_AL_HTTP_RAW_HEADER", HRHDMATCH>>,
      <<"DETECT_AL_HTTP_METHOD", HMDMATCH>>,
      <<"DETECT_AL_HTTP_COOKIE", HCDMATCH>> }

\* the types of the SigMatches that own a DetectContentData
ContentTypes ==
    { "DETECT_CONTENT", "DETECT_URICONTENT", "DETECT_AL_HTTP_CLIENT_BODY",
      "DETECT_AL_HTTP_HEADER", "DETECT_AL_HTTP_RAW_HEADER",
      "DETECT_AL_HTTP_METHOD", "DETECT_AL_HTTP_COOKIE" }

(***************************************************************************)
(* Inputs.                                                                 *)
(***************************************************************************)
\* the content patterns of the rules, byte by byte
P_one ==
    << "o", "n", "e" >>
P_oneonetwo ==
    << "o", "n", "e", "o", "n", "e", "t", "w", "o" >>
P_strings3 ==
    << "s", "t", "r", "i", "n", "g", "s", "3" >>
P_strings4_imp ==
    << "s", "t", "r", "i", "n", "g", "s", "4", "_", "i", "m", "p" >>
P_strings_string5 ==
    << "s", "t", "r", "i", "n", "g", "s", "_", "s", "t", "r", "i", "n",
       "g", "5" >>

\* the patterns of the rules that vary the keywords, and of those that vary
\* the numbers of the chop form
LongPatterns == {P_oneonetwo}
ContentPatterns == {P_one, P_oneonetwo}
\* the patterns of the rules that are built and searched
MpmPatterns == {P_strings3, P_strings4_imp, P_strings_string5}

\* payloads: the parts of the payloads of the tests that tell them apart
\* the start of every payload of the tests
B_dummy ==
    << "D", "u", "m", "m", "y", " ", "i", "s", " ", "o", "u", "r", " ",
       "n", "a", "m", "e", "." >>
\* DetectFastPatternTest08
B_strings3 ==
    << "k", "n", "i", "g", "h", "t", " ", "s", "t", "r", "i", "n", "g",
       "s", "3", "." >>
\* DetectFastPatternTest07
B_string5 ==
    << "k", "n", "i", "g", "h", "t", " ", "s", "t", "r", "i", "n", "g",
       "s", "_", "s", "t", "r", "i", "n", "g", "5", "." >>
\* DetectFastPatternTest09
B_nearmiss ==
    << "n", "o", "_", "s", "t", "r", "i", "n", "g", "s", "4", " ", "_",
       "i", "m", "p", " ", "k", "n", "i", "g", "h", "t", " ", "s", "t",
       "r", "i", "n", "g", "s", "3", "." >>
\* DetectFastPatternTest10
B_strings4_imp ==
    << "s", "t", "r", "i", "n", "g", "s", "4", "_", "i", "m", "p", " ",
       "k", "n", "i", "g", "h", "t", " ", "s", "t", "r", "i", "n", "g",
       "s", "5", "." >>
\* DetectFastPatternTest11, 12
B_strings5_imp ==
    << "s", "t", "r", "i", "n", "g", "s", "5", "_", "i", "m", "p", " ",
       "k", "n", "i", "g", "h", "t", " ", "s", "t", "r", "i", "n", "g",
       "s", "5", "." >>
\* DetectFastPatternTest13
B_both5 ==
    << "s", "t", "r", "i", "n", "g", "s", "5", "_", "i", "m", "p", " ",
       "k", "n", "i", "g", "h", "t", " ", "s", "t", "r", "i", "n", "g",
       "s", "_", "s", "t", "r", "i", "n", "g", "5", "." >>

Payloads ==
    { B_dummy, B_strings3, B_string5, B_nearmiss, B_strings4_imp,
      B_strings5_imp, B_both5 }


\* The argument text of fast_pattern as a sequence of lexical items: the
\* word "only", a run of whitespace "ws", a comma ",", a run of digits (its
\* decimal value, a natural number) and "x", any other character.
Tok(t) == [t |-> t, v |-> << 0, 0 >>]
Digits(v) == [t |-> "num", v |-> v]
ArgEmpty == << >>
ArgOnly == << Tok("only") >>
ArgChop(o, l) == << Digits(o), Tok(","), Digits(l) >>
ArgBoo == << Tok("x") >>

\* decimal numbers written in the rules, as <<hi, lo>>
N3 == << 0, 3 >>
N4 == << 0, 4 >>
N65534 == << 0, 65534 >>
N65977 == << 1, 441 >>
N2147483647 == << 32767, 65535 >>
N4294967295 == << 65535, 65535 >>

ChopPairs == { <<N3, N4>>, <<N65534, N4>>, <<N65977, N4>>, <<N3, N65977>>,
               <<N3, N2147483647>>, <<N4294967295, N4>> }

\* the arguments of the rules that vary the keywords around fast_pattern
FPArgs == {ArgEmpty, ArgOnly, ArgBoo, ArgChop(N3, N4)}
\* the arguments of the rules that vary the numbers of the chop form
ChopArgs == {ArgEmpty, ArgOnly} \cup { ArgChop(p[1], p[2]) : p \in ChopPairs }

\* the arguments of the rules that are built and searched
MpmArgs == {ArgEmpty, ArgOnly, ArgChop(N3, N4)}

\* argument texts around the grammar: "only" and a chop pair with whitespace,
\* with other characters before or after, and fragments of them
Ws == Tok("ws")
GrammarArgs ==
    { ArgEmpty, ArgOnly, ArgBoo, ArgChop(N3, N4),
      << Ws, Tok("only"), Ws >>,
      << Ws, Digits(N3), Ws, Tok(","), Ws, Digits(N4), Ws >>,
      << Ws >>,
      << Tok("only"), Tok("x") >>,
      << Tok("x"), Tok("only") >>,
      << Tok("x"), Digits(N3), Tok(","), Digits(N4) >>,
      << Digits(N3), Tok(","), Digits(N4), Tok("x") >>,
      << Tok("only"), Digits(N3), Tok(","), Digits(N4) >>,
      << Digits(N3) >>,
      << Digits(N3), Tok(",") >>,
      << Digits(N3), Tok("x"), Digits(N4) >> }

VARIABLES
    sm_lists,      \* s->sm_lists: list id -> sequence of SigMatch records
    sm_cnt,        \* s->sm_cnt: the idx the next SigMatch gets
    sig,           \* "parsing" | "loaded" | "rejected" (SigInit returned NULL)
    nkeywords,     \* keywords of the rule parsed so far
    last,          \* the keyword Setup that ran last: [op, arg, ret]
    marked,        \* history: the idx of the SigMatches that a fast_pattern
                   \* keyword of the rule was accepted on
    mpm_ctx,       \* the matchers of the signature group: [built, needles],
                   \* needles: list id -> set of patterns
    pmq            \* the pattern search that ran last: [done, buf, hits]

VARIABLES
    sm_fp_support_smtype_list,   \* the sm types given fast pattern support:
                                 \* the linked list from its head
    sm_fp_support_smlist_list,   \* the sm list ids searched for them
    thread_affinity,   \* family -> [cpu_set, lcpu, taf_mutex]
    tv,                \* thread -> [pc, taf, ncpu]: its place in
                       \* AffinityGetNextCPU, the family, the local ncpu
    assigned,          \* history: family -> the cpu ids returned, in order
    known_proto,       \* the stores into the table: index -> name
    proto_fp           \* SCProtoNameInit: "closed" | "open" | "fault",
                       \* and the lines read so far

mpmvars == <<mpm_ctx, pmq>>
regvars == <<sm_fp_support_smtype_list, sm_fp_support_smlist_list>>
tafvars == <<thread_affinity, tv, assigned>>
protovars == <<known_proto, proto_fp>>
sigvars == <<sm_lists, sm_cnt, sig, nkeywords, last, marked, mpm_ctx, pmq>>
envvars == <<regvars, tafvars, protovars>>
vars == <<sm_lists, sm_cnt, sig, nkeywords, last, marked, mpm_ctx, pmq,
          sm_fp_support_smtype_list, sm_fp_support_smlist_list,
          thread_affinity, tv, assigned, known_proto, proto_fp>>

(***************************************************************************)
(* The Signature's SigMatch lists.                                         *)
(***************************************************************************)
\* a new SigMatch; a content-bearing one owns a zeroed DetectContentData
NewSM(idx, type, flags, content) ==
    [idx |-> idx, type |-> type, flags |-> flags,
     content |-> content, content_len |-> Len(content),
     fp_chop_offset |-> 0, fp_chop_len |-> 0]

\* every SigMatch of the signature
AllSM(lists) == UNION { { lists[l][i] : i \in DOMAIN lists[l] } : l \in DOMAIN lists }

IsContent(sm) == sm.type \in ContentTypes

\* the SigMatch of idx k
SMAt(lists, k) == CHOOSE sm \in AllSM(lists) : sm.idx = k

\* the list that holds the SigMatch of idx k
ListOf(lists, k) == CHOOSE l \in DOMAIN lists : \E i \in DOMAIN lists[l] : lists[l][i].idx = k

\* SigMatchAppendSMToList
AppendSM(lists, l, sm) == [lists EXCEPT ![l] = Append(@, sm)]

\* the lists with the SigMatch of idx k replaced by cd
ReplaceSM(lists, k, cd) ==
    [l \in DOMAIN lists |->
        [i \in DOMAIN lists[l] |-> IF lists[l][i].idx = k THEN cd ELSE lists[l][i]]]

\* walking back from the tail of list l: the idx of the last SigMatch of the
\* type, NULL when there is none
LastOfType(lists, type, l) ==
    LET hits == { i \in DOMAIN lists[l] : lists[l][i].type = type }
    IN  IF hits = {} THEN NULL
        ELSE lists[l][CHOOSE i \in hits : \A j \in hits : j <= i].idx

\* SigMatchGetLastSMFromLists: of the last SigMatch of each (type, list)
\* pair, the one added last (highest idx); NULL when no pair has one
SigMatchGetLastSMFromLists(lists, pairs) ==
    LET found == { LastOfType(lists, p[1], p[2]) : p \in pairs } \ {NULL}
    IN  IF found = {} THEN NULL
        ELSE CHOOSE k \in found : \A j \in found : j <= k

(***************************************************************************)
(* pcre_exec of DETECT_FAST_PATTERN_REGEX on the argument.  The regex is   *)
(* an alternation of two branches: the first is anchored at the start only *)
(* (optional whitespace, "only", optional whitespace, in group 1), the     *)
(* second at the end only (two runs of digits around a comma, in groups 2  *)
(* and 3, with optional whitespace around each item).                      *)
(* The result is the number of the highest capture group                   *)
(* that matched plus one: 2 for the first alternative, 4 for the second,   *)
(* -1 (PCRE_ERROR_NOMATCH) otherwise.                                      *)
(***************************************************************************)
RECURSIVE SkipWs(_, _)
\* the first position at or after i that holds no whitespace
SkipWs(arg, i) ==
    IF i <= Len(arg) /\ arg[i].t = "ws" THEN SkipWs(arg, i + 1) ELSE i

IsTok(arg, i, t) == i <= Len(arg) /\ arg[i].t = t

\* first branch: matches at the start of the argument, whatever follows
MatchOnly(arg) == IsTok(arg, SkipWs(arg, 1), "only")

\* second branch tried at position i: the two captures, or << >>
MatchChopAt(arg, i) ==
    LET a == SkipWs(arg, i)
        c == SkipWs(arg, a + 1)
        b == SkipWs(arg, c + 1)
        e == SkipWs(arg, b + 1)
    IN  IF IsTok(arg, a, "num") /\ IsTok(arg, c, ",") /\ IsTok(arg, b, "num")
           /\ e = Len(arg) + 1
        THEN << arg[a].v, arg[b].v >>
        ELSE << >>

\* the leftmost match of the second alternative
MatchChop(arg) ==
    LET starts == { i \in 1..Len(arg) : MatchChopAt(arg, i) # << >> }
    IN  IF starts = {} THEN << >>
        ELSE MatchChopAt(arg, CHOOSE i \in starts : \A j \in starts : i <= j)

PcreExec(arg) ==
    IF MatchOnly(arg) THEN 2
    ELSE IF MatchChop(arg) # << >> THEN 4
    ELSE -1

(***************************************************************************)
(* atoi, and the int addition of the chop check.  Both are undefined on    *)
(* overflow: the model takes every outcome a build produces.               *)
(***************************************************************************)
\* atoi of a run of digits of value v: exact when v fits an int; beyond it
\* the low 32 bits ((int) strtol) or the clamped INT_MAX
Atoi(v) ==
    IF v[1] < SIGN_HI THEN { v }
    ELSE { << v[1] % HALF, v[2] >>, INT_MAX }

\* a + b on ints: exact when it fits; on signed overflow the wrapped sum,
\* or a build that compares the true (large) sum
IntAdd(a, b) ==
    LET w == WrapAdd(a, b)
    IN  IF IsNeg(a) = IsNeg(b) /\ IsNeg(w) # IsNeg(a)
        THEN { w, (IF IsNeg(a) THEN << SIGN_HI, 0 >> ELSE INT_MAX) }
        ELSE { w }

(***************************************************************************)
(* DetectFastPatternSetup                                                  *)
(***************************************************************************)
\* all seven list tails are NULL
NoFastPatternList(lists) == \A p \in FastPatternSearchPairs : Len(lists[p[2]]) = 0

\* the check of negation with a relative modifier, depth left out
NegatedWithRelative_NoDepth(cd) ==
    NEGATED \in cd.flags /\ (cd.flags \cap (RelFlags \ {DEPTH})) # {}

\* negated content along with a relative modifier
NegatedWithRelative(cd) == NEGATED \in cd.flags /\ (cd.flags \cap RelFlags) # {}

\* the check of fast_pattern:only with distance left out
OnlyForbidden_NoDistance(cd) ==
    NEGATED \in cd.flags \/ (cd.flags \cap (RelFlags \ {DISTANCE})) # {}

\* the check of fast_pattern:only with negation left out
OnlyForbidden_NoNegated(cd) == (cd.flags \cap RelFlags) # {}

\* what fast_pattern:only cannot be combined with
OnlyForbidden(cd) == NEGATED \in cd.flags \/ (cd.flags \cap RelFlags) # {}

\* the limit checks of fast_pattern:<offset>,<length> on ints offset, length
\* with their sum: TRUE when one of them takes the error exit
ChopRejected(cd, offset, length, sum) ==
    \/ IntGT(offset, IntOf(FP_LIMIT))
    \/ IntGT(offset, IntOf(FP_LIMIT))
    \/ IntGT(sum, IntOf(FP_LIMIT))
    \/ IntGT(sum, IntOf(cd.content_len))

\* the chop branch storing the offset before the limits are checked
ChopBranch_StoreFirst(cd, cap) ==
    { IF ChopRejected(cd, offset, length, sum)
      THEN [ret |-> -1, cd |-> [cd EXCEPT !.fp_chop_offset = ToUint16(offset)]]
      ELSE [ret |-> 0,
            cd |-> [cd EXCEPT !.fp_chop_offset = ToUint16(offset),
                              !.fp_chop_len = ToUint16(length),
                              !.flags = @ \cup {FAST_PATTERN_CHOP, FAST_PATTERN}]]
      : <<offset, length, sum>> \in
          UNION { UNION { { <<o, l, t>> : t \in IntAdd(o, l) } : l \in Atoi(cap[2]) }
                  : o \in Atoi(cap[1]) } }

\* the chop branch: the results [ret, cd] for the captured digit runs
ChopBranch(cd, cap) ==
    { IF ChopRejected(cd, offset, length, sum)
      THEN [ret |-> -1, cd |-> cd]
      ELSE [ret |-> 0,
            cd |-> [cd EXCEPT !.fp_chop_offset = ToUint16(offset),
                              !.fp_chop_len = ToUint16(length),
                              !.flags = @ \cup {FAST_PATTERN_CHOP, FAST_PATTERN}]]
      : <<offset, length, sum>> \in
          UNION { UNION { { <<o, l, t>> : t \in IntAdd(o, l) } : l \in Atoi(cap[2]) }
                  : o \in Atoi(cap[1]) } }

\* the function with the bare form returning 0 without setting the flag
FastPatternOnContent_BareUnflagged(cd, arg) ==
    IF NegatedWithRelative(cd) THEN { [ret |-> -1, cd |-> cd] }
    ELSE IF arg = << >>
    THEN { [ret |-> 0, cd |-> cd] }
    ELSE IF PcreExec(arg) = 2
    THEN IF OnlyForbidden(cd) THEN { [ret |-> -1, cd |-> cd] }
         ELSE { [ret |-> 0,
                 cd |-> [cd EXCEPT !.flags = @ \cup {FAST_PATTERN_ONLY, FAST_PATTERN}]] }
    ELSE IF PcreExec(arg) = 4
    THEN ChopBranch(cd, MatchChop(arg))
    ELSE { [ret |-> -1, cd |-> cd] }

\* the function with fast_pattern:only setting FAST_PATTERN_ONLY alone
FastPatternOnContent_OnlyAlone(cd, arg) ==
    IF NegatedWithRelative(cd) THEN { [ret |-> -1, cd |-> cd] }
    ELSE IF arg = << >>
    THEN { [ret |-> 0, cd |-> [cd EXCEPT !.flags = @ \cup {FAST_PATTERN}]] }
    ELSE IF PcreExec(arg) = 2
    THEN IF OnlyForbidden(cd) THEN { [ret |-> -1, cd |-> cd] }
         ELSE { [ret |-> 0,
                 cd |-> [cd EXCEPT !.flags = @ \cup {FAST_PATTERN_ONLY}]] }
    ELSE IF PcreExec(arg) = 4
    THEN ChopBranch(cd, MatchChop(arg))
    ELSE { [ret |-> -1, cd |-> cd] }

\* the function on the DetectContentData cd of the SigMatch found
FastPatternOnContent(cd, arg) ==
    IF NegatedWithRelative(cd) THEN { [ret |-> -1, cd |-> cd] }
    ELSE IF arg = << >>
    THEN { [ret |-> 0, cd |-> [cd EXCEPT !.flags = @ \cup {FAST_PATTERN}]] }
    ELSE IF PcreExec(arg) = 2
    THEN IF OnlyForbidden(cd) THEN { [ret |-> -1, cd |-> cd] }
         ELSE { [ret |-> 0,
                 cd |-> [cd EXCEPT !.flags = @ \cup {FAST_PATTERN_ONLY, FAST_PATTERN}]] }
    ELSE IF PcreExec(arg) = 4
    THEN ChopBranch(cd, MatchChop(arg))
    ELSE { [ret |-> -1, cd |-> cd] }

\* the SigMatch a fast_pattern keyword applies to (its idx, or NULL)
FastPatternTarget(lists) ==
    IF NoFastPatternList(lists) THEN NULL
    ELSE SigMatchGetLastSMFromLists(lists, FastPatternSearchPairs)

\* the whole function, setting FAST_PATTERN on every keyword of the list when
\* it accepts
DetectFastPatternSetup_StampAll(lists, arg) ==
    LET pm == FastPatternTarget(lists)
        l == ListOf(lists, pm)
    IN  IF pm = NULL THEN { [ret |-> -1, lists |-> lists] }
        ELSE { [ret |-> r.ret,
                lists |-> IF r.ret = 0
                          THEN [ReplaceSM(lists, pm, r.cd) EXCEPT ![l] =
                                  [i \in DOMAIN @ |->
                                      [@[i] EXCEPT !.flags = @ \cup {FAST_PATTERN}]]]
                          ELSE lists]
               : r \in FastPatternOnContent(SMAt(lists, pm), arg) }

\* the whole function, taking the fast-pattern flags off the other keywords
\* of the list when it accepts
DetectFastPatternSetup_LastWins(lists, arg) ==
    LET pm == FastPatternTarget(lists)
        l == ListOf(lists, pm)
        cleared == [lists EXCEPT ![l] =
                      [i \in DOMAIN @ |-> [@[i] EXCEPT !.flags = @ \ FPFlags]]]
    IN  IF pm = NULL THEN { [ret |-> -1, lists |-> lists] }
        ELSE { [ret |-> r.ret,
                lists |-> IF r.ret = 0 THEN ReplaceSM(cleared, pm, r.cd)
                          ELSE lists]
               : r \in FastPatternOnContent(SMAt(lists, pm), arg) }

\* the whole function returning 0 when it found no keyword to apply to
DetectFastPatternSetup_NoTargetOk(lists, arg) ==
    LET pm == FastPatternTarget(lists)
    IN  IF pm = NULL THEN { [ret |-> 0, lists |-> lists] }
        ELSE { [ret |-> r.ret, lists |-> ReplaceSM(lists, pm, r.cd)]
               : r \in FastPatternOnContent(SMAt(lists, pm), arg) }

\* the whole function: the results [ret, lists] on the signature's lists
DetectFastPatternSetup(lists, arg) ==
    LET pm == FastPatternTarget(lists)
    IN  IF pm = NULL THEN { [ret |-> -1, lists |-> lists] }
        ELSE { [ret |-> r.ret, lists |-> ReplaceSM(lists, pm, r.cd)]
               : r \in FastPatternOnContent(SMAt(lists, pm), arg) }


(***************************************************************************)
(* The Setup functions of the other keywords.                              *)
(***************************************************************************)
\* http_uri, http_client_body, ...: the (sm type, sm list) a content moves to
HttpModifiers ==
    { <<"DETECT_URICONTENT", UMATCH>>,
      <<"DETECT_AL_HTTP_CLIENT_BODY", HCBDMATCH>>,
      <<"DETECT_AL_HTTP_HEADER", HHDMATCH>>,
      <<"DETECT_AL_HTTP_RAW_HEADER", HRHDMATCH>>,
      <<"DETECT_AL_HTTP_METHOD", HMDMATCH>>,
      <<"DETECT_AL_HTTP_COOKIE", HCDMATCH>> }

\* an http_* modifier: the last content of the payload list is taken out of
\* it and appended, with its DetectContentData, to the modifier's list
DetectHttpModifierSetup(lists, h) ==
    LET pm == LastOfType(lists, "DETECT_CONTENT", PMATCH)
    IN  IF pm = NULL THEN [ret |-> -1, lists |-> lists]
        ELSE [ret |-> 0,
              lists |-> [lists EXCEPT
                  ![PMATCH] = SelectSeq(@, LAMBDA sm : sm.idx # pm),
                  ![h[2]] = Append(@, [SMAt(lists, pm) EXCEPT !.type = h[1]])]]

\* distance, within, offset, depth on the content keyword before them: not
\* accepted on a keyword that is fast_pattern:only, nor on a negated keyword
\* that is a fast pattern
DetectRelModifierSetup(lists, flag) ==
    LET pm == SigMatchGetLastSMFromLists(lists,
                  HttpModifiers \cup { <<"DETECT_CONTENT", PMATCH>> })
        cd == SMAt(lists, pm)
    IN  IF pm = NULL THEN [ret |-> -1, lists |-> lists]
        ELSE IF \/ FAST_PATTERN_ONLY \in cd.flags
                \/ (NEGATED \in cd.flags /\ FAST_PATTERN \in cd.flags)
        THEN [ret |-> -1, lists |-> lists]
        ELSE [ret |-> 0,
              lists |-> ReplaceSM(lists, pm, [cd EXCEPT !.flags = @ \cup {flag}])]

(***************************************************************************)
(* The pattern-matcher stage: SigGroupBuild picks, for every list that     *)
(* holds content keywords, the pattern that goes into the list's matcher;  *)
(* PacketPatternSearch scans the payload with the matcher of the payload   *)
(* list and returns the number of patterns found.                          *)
(***************************************************************************)
\* cap of the length part of the score
ScoreCap == 255

\* the bytes that occur in the pattern p
Bytes(p) == { p[i] : i \in DOMAIN p }

\* pattern strength by the number of different bytes alone
Score_DiversityOnly(p) == Cardinality(Bytes(p))

\* pattern strength with the shorter pattern the stronger
Score_ShortFirst(p) ==
    (ScoreCap - (IF Len(p) < ScoreCap THEN Len(p) ELSE ScoreCap)) * (ScoreCap + 1)
        + Cardinality(Bytes(p))

\* pattern strength: grows with the length up to the cap, and with the
\* number of different bytes among patterns of one length
Score(p) ==
    (IF Len(p) < ScoreCap THEN Len(p) ELSE ScoreCap) * (ScoreCap + 1)
        + Cardinality(Bytes(p))

\* the positions of list l that are up for selection: the content keywords
\* that carry FAST_PATTERN when there are any, else every content keyword
FastPatternCandidates(lists, l) ==
    LET contents == { i \in DOMAIN lists[l] : IsContent(lists[l][i]) }
        flagged == { i \in contents : FAST_PATTERN \in lists[l][i].flags }
    IN  IF flagged # {} THEN flagged ELSE contents

\* the position selected: the strongest candidate, the earliest among equals
SelectFastPattern(lists, l) ==
    LET cand == FastPatternCandidates(lists, l)
        sc(i) == Score(lists[l][i].content)
    IN  CHOOSE i \in cand :
            \A j \in cand : sc(j) < sc(i) \/ (sc(j) = sc(i) /\ i <= j)

\* the bytes of a selected keyword that go into the matcher
Needle(cd) ==
    IF FAST_PATTERN_CHOP \in cd.flags
    THEN SubSeq(cd.content, cd.fp_chop_offset + 1,
                cd.fp_chop_offset + cd.fp_chop_len)
    ELSE cd.content

\* Build: the patterns of the matcher of every list
Build(lists) ==
    [l \in SMLists |->
        IF FastPatternCandidates(lists, l) = {} THEN {}
        ELSE { Needle(lists[l][SelectFastPattern(lists, l)]) }]

\* the pattern occurs in the buffer
Occurs(needle, buf) ==
    \E i \in 0..(Len(buf) - Len(needle)) :
        SubSeq(buf, i + 1, i + Len(needle)) = needle

\* Search: the patterns of a matcher found in the buffer
Search(needles, buf) == { n \in needles : Occurs(n, buf) }

\* no matcher built yet, no search run yet
NoMpm == [built |-> FALSE, needles |-> [l \in SMLists |-> {}]]
NoSearch == [done |-> FALSE, buf |-> << >>, hits |-> 0]

(***************************************************************************)
(* The registry of the keywords given fast pattern support: two linked     *)
(* lists, each written as the sequence of its nodes from the head.         *)
(***************************************************************************)
\* is v held by a node of the list
InList(list, v) == \E i \in DOMAIN list : list[i] = v

\* registering a list id with the walk over the list left out
SupportFastPatternForSigMatchList_NoWalk(list, list_id) == << list_id >> \o list

\* SupportFastPatternForSigMatchList: nothing when a node holds list_id,
\* otherwise a new node at the head
SupportFastPatternForSigMatchList(list, list_id) ==
    IF InList(list, list_id) THEN list ELSE << list_id >> \o list

\* SupportFastPatternForSigMatchType: the same on the list of sm types
SupportFastPatternForSigMatchType(list, sm_type) ==
    IF InList(list, sm_type) THEN list ELSE << sm_type >> \o list

\* the calls of SupportFastPatternForSigMatchTypes, in their order: the sm
\* type and the sm list id of each pair of calls
SupportedSigMatchTypes ==
    << <<"DETECT_CONTENT", PMATCH>>,
       <<"DETECT_URICONTENT", UMATCH>>,
       <<"DETECT_AL_HTTP_CLIENT_BODY", HCBDMATCH>>,
       <<"DETECT_AL_HTTP_HEADER", HHDMATCH>>,
       <<"DETECT_AL_HTTP_RAW_HEADER", HRHDMATCH>>,
       <<"DETECT_AL_HTTP_METHOD", HMDMATCH>>,
       <<"DETECT_AL_HTTP_COOKIE", HCDMATCH>> >>

\* SupportFastPatternForSigMatchTypes from its n-th pair of calls on: the
\* two lists [smtype, smlist] it leaves
RECURSIVE SupportFrom(_, _)
SupportFrom(reg, n) ==
    IF n > Len(SupportedSigMatchTypes) THEN reg
    ELSE SupportFrom(
           [smtype |-> SupportFastPatternForSigMatchType(
                           reg.smtype, SupportedSigMatchTypes[n][1]),
            smlist |-> SupportFastPatternForSigMatchList(
                           reg.smlist, SupportedSigMatchTypes[n][2])],
           n + 1)

SupportFastPatternForSigMatchTypes(reg) == SupportFrom(reg, 1)

\* the sm types and sm list ids registered one at a time
RegTypes == {"DETECT_CONTENT", "DETECT_AL_HTTP_HEADER", "DETECT_AL_HTTP_COOKIE"}
RegLists == {PMATCH, HHDMATCH, HCDMATCH}

(***************************************************************************)
(* CPU affinity of the thread families.                                    *)
(***************************************************************************)
\* two of the families of thread_affinity[]
Families == {"receive_cpu_set", "detect_cpu_set"}
\* the threads that ask for a cpu
Threads == {"t1", "t2"}

\* the processors the system has configured and has online
UtilCpuGetNumProcessorsConfigured == 4
UtilCpuGetNumProcessorsOnline == 3

\* the values of a 'cpu' node of the configuration
CpuAll == [kind |-> "all", a |-> 0, b |-> 0]
CpuOne(a) == [kind |-> "one", a |-> a, b |-> a]
CpuRange(a, b) == [kind |-> "range", a |-> a, b |-> b]

\* build_cpuset: the values of the node added to the set cpu, one after the
\* other; "all" ends the walk.  A range in bad order makes the program exit.
BadOrder(val) == val.kind = "range" /\ val.a > val.b
RECURSIVE build_cpuset(_, _)
build_cpuset(node, cpu) ==
    IF node = << >> THEN cpu
    ELSE LET val == Head(node)
         IN  IF val.kind = "all"
             THEN cpu \cup (0..(UtilCpuGetNumProcessorsOnline - 1))
             ELSE build_cpuset(Tail(node), cpu \cup (val.a..val.b))

\* what the configuration says of a family: nothing (the family is not
\* named), an entry without a 'cpu' child, or an entry with a 'cpu' node
ConfAbsent == [named |-> FALSE, cpu |-> FALSE, node |-> << >>]
ConfNoCpu == [named |-> TRUE, cpu |-> FALSE, node |-> << >>]
ConfCpu(node) == [named |-> TRUE, cpu |-> TRUE, node |-> node]

FamilyConfs ==
    { ConfAbsent,
      ConfNoCpu,
      ConfCpu(<< CpuAll >>),
      ConfCpu(<< CpuOne(0) >>),
      ConfCpu(<< CpuRange(1, 2) >>),
      ConfCpu(<< CpuOne(2), CpuOne(0) >>),
      ConfCpu(<< CpuOne(1), CpuOne(3) >>),
      ConfCpu(<< CpuOne(3) >>),
      ConfCpu(<< CpuRange(2, 1) >>) }

\* the configuration makes the program exit
ConfExits(conf) == \E i \in DOMAIN conf.node : BadOrder(conf.node[i])

\* the cpu_set of a family after AffinitySetupLoadFromConfig: every
\* configured cpu from AffinitySetupInit, then for a family the configuration
\* names CPU_ZERO and the 'cpu' node it has
ConfiguredCpuSet(conf) ==
    IF ~conf.named THEN 0..(UtilCpuGetNumProcessorsConfigured - 1)
    ELSE IF ~conf.cpu THEN {}
    ELSE build_cpuset(conf.node, {})

\* the mutex of a family at SCMutexLock: locking without waiting for it
SCMutexLock_NoWait(taf_mutex) == taf_mutex # "uninit"
\* SCMutexLock returns once the mutex is free
SCMutexLock(taf_mutex) == taf_mutex = "free"

\* ncpu++ with the wrap one processor late
NextNcpu_WrapLate(ncpu) ==
    IF ncpu + 1 > UtilCpuGetNumProcessorsOnline THEN 0 ELSE ncpu + 1

\* ncpu++ with the wrap at the processors online
NextNcpu(ncpu) ==
    IF ncpu + 1 >= UtilCpuGetNumProcessorsOnline THEN 0 ELSE ncpu + 1

\* the static initializer of thread_affinity[]
AffinityStatic == [cpu_set |-> {}, lcpu |-> 0, taf_mutex |-> "uninit"]
ThreadIdle == [pc |-> "idle", taf |-> "none", ncpu |-> 0]

(***************************************************************************)
(* The table of protocol names, loaded from the protocols file.            *)
(***************************************************************************)
\* a text as the sequence of its characters
DigitChars == <<"0", "1", "2", "3", "4", "5", "6", "7", "8", "9">>
IsDigit(c) == \E d \in DOMAIN DigitChars : DigitChars[d] = c
DigitVal(c) == (CHOOSE d \in DOMAIN DigitChars : DigitChars[d] = c) - 1

\* the digits at the start of the text s, as a number continuing acc
RECURSIVE AtoiDigits(_, _)
AtoiDigits(s, acc) ==
    IF s = << >> \/ ~IsDigit(Head(s)) THEN acc
    ELSE AtoiDigits(Tail(s), acc * 10 + DigitVal(Head(s)))

\* atoi on a field of the line: an optional sign, then the digits up to the
\* first other character; 0 when there are none
ProtoAtoi(s) ==
    IF s = << >> THEN 0
    ELSE IF Head(s) = "-" THEN 0 - AtoiDigits(Tail(s), 0)
    ELSE IF Head(s) = "+" THEN AtoiDigits(Tail(s), 0)
    ELSE AtoiDigits(s, 0)

\* the size of the table and the number the load stops at
ProtoTableSize == 256
ProtoLimit == 255

\* lines of the file: a comment, or the fields between blanks and tabs
ProtoComment == [comment |-> TRUE, fields |-> << >>]
ProtoFields(f) == [comment |-> FALSE, fields |-> f]
ProtoLines ==
    { ProtoComment,
      ProtoFields(<< >>),
      ProtoFields(<< "tcp" >>),
      ProtoFields(<< "tcp", <<"6">>, "TCP" >>),
      ProtoFields(<< "udp", <<"1", "7">> >>),
      ProtoFields(<< "ip", <<"0">>, "IP" >>),
      ProtoFields(<< "any", <<"a", "n", "y">> >>),
      ProtoFields(<< "divert", <<"2", "5", "4">>, "DIVERT" >>),
      ProtoFields(<< "raw", <<"2", "5", "5">>, "RAW" >>),
      ProtoFields(<< "big", <<"2", "5", "6">> >>),
      ProtoFields(<< "neg", <<"-", "1">>, "NEG" >>) }

\* the check on the number: the line is passed over
ProtoSkipped(proto) == proto >= ProtoLimit

\* known_proto[proto] = name on the stores so far
ProtoStore(table, proto, name) ==
    { e \in table : e[1] # proto } \cup { << proto, name >> }

\* the body of the loop on one line: the outcomes [table, fault].  A store
\* at an index outside the table is undefined: it lands in memory around the
\* table or the process faults.
ProtoLine(table, line) ==
    IF line.comment THEN { [table |-> table, fault |-> FALSE] }
    ELSE IF Len(line.fields) < 2 THEN { [table |-> table, fault |-> FALSE] }
    ELSE LET name == line.fields[1]
             proto == ProtoAtoi(line.fields[2])
             stored == IF Len(line.fields) >= 3 THEN line.fields[3] ELSE name
         IN  IF ProtoSkipped(proto)
             THEN { [table |-> table, fault |-> FALSE] }
             ELSE IF proto \in 0..(ProtoTableSize - 1)
             THEN { [table |-> ProtoStore(table, proto, stored), fault |-> FALSE] }
             ELSE { [table |-> ProtoStore(table, proto, stored), fault |-> FALSE],
                    [table |-> table, fault |-> TRUE] }

(***************************************************************************)
(* SigInit: the keywords of one rule, in the order they are written.       *)
(***************************************************************************)
NoArg == << >>
Ran(op, arg, ret) == [op |-> op, arg |-> arg, ret |-> ret]

Init ==
    /\ sm_lists = [l \in SMLists |-> << >>]
    /\ sm_cnt = 0
    /\ sig = "parsing"
    /\ nkeywords = 0
    /\ last = Ran("SigInit", NoArg, 0)
    /\ marked = {}
    /\ mpm_ctx = NoMpm
    /\ pmq = NoSearch
    /\ sm_fp_support_smtype_list = << >>
    /\ sm_fp_support_smlist_list = << >>
    /\ thread_affinity = [f \in Families |-> AffinityStatic]
    /\ tv = [t \in Threads |-> ThreadIdle]
    /\ assigned = [f \in Families |-> << >>]
    /\ known_proto = {}
    /\ proto_fp = [st |-> "closed", nlines |-> 0, line |-> ProtoComment]

\* a keyword Setup returned ret: -1 makes SigInit free the signature and
\* return NULL
SigAfter(ret) == IF ret = 0 THEN "parsing" ELSE "rejected"

\* SigInit takes the next keyword of the rule
NextKeyword ==
    /\ sig = "parsing"
    /\ nkeywords < MaxKeywords
    /\ nkeywords' = nkeywords + 1

\* content:<pattern> / content:!<pattern>
DetectContentSetup(pats, negs) ==
    /\ NextKeyword
    /\ \E neg \in negs, content \in pats :
          sm_lists' = AppendSM(sm_lists, PMATCH,
                         NewSM(sm_cnt, "DETECT_CONTENT",
                               IF neg THEN {NEGATED} ELSE {}, content))
    /\ sm_cnt' = sm_cnt + 1
    /\ last' = Ran("content", NoArg, 0)
    /\ UNCHANGED <<sig, marked>>
    /\ UNCHANGED mpmvars
    /\ UNCHANGED envvars

\* uricontent:<pattern> / uricontent:!<pattern>
DetectUricontentSetup(pats) ==
    /\ NextKeyword
    /\ \E neg \in BOOLEAN, content \in pats :
          sm_lists' = AppendSM(sm_lists, UMATCH,
                         NewSM(sm_cnt, "DETECT_URICONTENT",
                               IF neg THEN {NEGATED} ELSE {}, content))
    /\ sm_cnt' = sm_cnt + 1
    /\ last' = Ran("uricontent", NoArg, 0)
    /\ UNCHANGED <<sig, marked>>
    /\ UNCHANGED mpmvars
    /\ UNCHANGED envvars

\* pcre:<regex>: a payload keyword that bears no content
DetectPcreSetup ==
    /\ NextKeyword
    /\ sm_lists' = AppendSM(sm_lists, PMATCH, NewSM(sm_cnt, "DETECT_PCRE", {}, << >>))
    /\ sm_cnt' = sm_cnt + 1
    /\ last' = Ran("pcre", NoArg, 0)
    /\ UNCHANGED <<sig, marked>>
    /\ UNCHANGED mpmvars
    /\ UNCHANGED envvars

\* http_uri, http_client_body, http_header, http_raw_header, http_method,
\* http_cookie
HttpModifierKeyword ==
    /\ NextKeyword
    /\ \E h \in HttpModifiers :
          LET r == DetectHttpModifierSetup(sm_lists, h)
          IN  /\ sm_lists' = r.lists
              /\ sig' = SigAfter(r.ret)
              /\ last' = Ran("http", NoArg, r.ret)
    /\ UNCHANGED <<sm_cnt, marked>>
    /\ UNCHANGED mpmvars
    /\ UNCHANGED envvars

\* distance, within, offset, depth
RelModifierKeyword ==
    /\ NextKeyword
    /\ \E flag \in RelFlags :
          LET r == DetectRelModifierSetup(sm_lists, flag)
          IN  /\ sm_lists' = r.lists
              /\ sig' = SigAfter(r.ret)
              /\ last' = Ran("relative", NoArg, r.ret)
    /\ UNCHANGED <<sm_cnt, marked>>
    /\ UNCHANGED mpmvars
    /\ UNCHANGED envvars

\* fast_pattern, fast_pattern:<arg>
FastPatternKeyword(args) ==
    /\ NextKeyword
    /\ \E arg \in args :
          \E r \in DetectFastPatternSetup(sm_lists, arg) :
              /\ sm_lists' = r.lists
              /\ sig' = SigAfter(r.ret)
              /\ last' = Ran("fast_pattern", arg, r.ret)
              /\ marked' = IF r.ret = 0
                           THEN marked \cup {FastPatternTarget(sm_lists)}
                           ELSE marked
    /\ UNCHANGED sm_cnt
    /\ UNCHANGED mpmvars
    /\ UNCHANGED envvars

\* the end of the rule: SigInit returns the signature
SigInitDone ==
    /\ sig = "parsing"
    /\ sig' = "loaded"
    /\ last' = Ran("done", NoArg, 0)
    /\ UNCHANGED <<sm_lists, sm_cnt, nkeywords, marked>>
    /\ UNCHANGED mpmvars
    /\ UNCHANGED envvars

\* SigInit of the next rule starts from a fresh Signature
SigInitNext ==
    /\ sig \in {"loaded", "rejected"}
    /\ sm_lists' = [l \in SMLists |-> << >>]
    /\ sm_cnt' = 0
    /\ sig' = "parsing"
    /\ nkeywords' = 0
    /\ last' = Ran("SigInit", NoArg, 0)
    /\ marked' = {}
    /\ mpm_ctx' = NoMpm
    /\ pmq' = NoSearch
    /\ UNCHANGED envvars

\* SigGroupBuild on the loaded signature
SigGroupBuild ==
    /\ sig = "loaded"
    /\ ~mpm_ctx.built
    /\ mpm_ctx' = [built |-> TRUE, needles |-> Build(sm_lists)]
    /\ last' = Ran("build", NoArg, 0)
    /\ UNCHANGED <<sm_lists, sm_cnt, sig, nkeywords, marked, pmq>>
    /\ UNCHANGED envvars

\* PacketPatternSearch on a packet with payload buf
PacketPatternSearch ==
    /\ mpm_ctx.built
    /\ \E buf \in Payloads :
          pmq' = [done |-> TRUE, buf |-> buf,
                  hits |-> Cardinality(Search(mpm_ctx.needles[PMATCH], buf))]
    /\ last' = Ran("search", NoArg, 0)
    /\ UNCHANGED <<sm_lists, sm_cnt, sig, nkeywords, marked, mpm_ctx>>
    /\ UNCHANGED envvars

(***************************************************************************)
(* The registry at the start of the engine.                                *)
(***************************************************************************)
\* SupportFastPatternForSigMatchType(sm_type)
SupportSigMatchTypeCall(types) ==
    /\ \E sm_type \in types :
          sm_fp_support_smtype_list' =
              SupportFastPatternForSigMatchType(sm_fp_support_smtype_list, sm_type)
    /\ UNCHANGED sm_fp_support_smlist_list
    /\ UNCHANGED <<sigvars, tafvars, protovars>>

\* SupportFastPatternForSigMatchList(list_id)
SupportSigMatchListCall(ids) ==
    /\ \E list_id \in ids :
          sm_fp_support_smlist_list' =
              SupportFastPatternForSigMatchList(sm_fp_support_smlist_list, list_id)
    /\ UNCHANGED sm_fp_support_smtype_list
    /\ UNCHANGED <<sigvars, tafvars, protovars>>

\* SupportFastPatternForSigMatchTypes()
SupportSigMatchTypesCall ==
    /\ LET reg == SupportFastPatternForSigMatchTypes(
                      [smtype |-> sm_fp_support_smtype_list,
                       smlist |-> sm_fp_support_smlist_list])
       IN  /\ sm_fp_support_smtype_list' = reg.smtype
           /\ sm_fp_support_smlist_list' = reg.smlist
    /\ UNCHANGED <<sigvars, tafvars, protovars>>

(***************************************************************************)
(* The threads of the families and their cpus.                             *)
(***************************************************************************)
\* AffinitySetupLoadFromConfig: AffinitySetupInit, then the families the
\* configuration names
AffinitySetupLoadFromConfig ==
    /\ \A f \in Families : thread_affinity[f].taf_mutex = "uninit"
    /\ \E conf \in [Families -> FamilyConfs] :
          /\ \A f \in Families : ~ConfExits(conf[f])
          /\ thread_affinity' =
                [f \in Families |->
                    [cpu_set |-> ConfiguredCpuSet(conf[f]),
                     lcpu |-> thread_affinity[f].lcpu,
                     taf_mutex |-> "free"]]
    /\ UNCHANGED <<tv, assigned>>
    /\ UNCHANGED <<sigvars, regvars, protovars>>

\* the calls of AffinityGetNextCPU on family f begun so far
CallsOn(f) ==
    Len(assigned[f]) + Cardinality({ t \in Threads : tv[t].taf = f })

\* AffinityGetNextCPU(taf) up to the loop: SCMutexLock, ncpu = taf->lcpu
AffinityLock(t) ==
    /\ tv[t].pc = "idle"
    /\ \E f \in Families :
          /\ SCMutexLock(thread_affinity[f].taf_mutex)
          /\ CallsOn(f) < MaxCalls
          /\ thread_affinity' = [thread_affinity EXCEPT ![f].taf_mutex = t]
          /\ tv' = [tv EXCEPT ![t] = [pc |-> "loop", taf |-> f,
                                      ncpu |-> thread_affinity[f].lcpu]]
    /\ UNCHANGED assigned
    /\ UNCHANGED <<sigvars, regvars, protovars>>

\* one turn of the loop: ncpu is not in the set
AffinityLoop(t) ==
    /\ tv[t].pc = "loop"
    /\ tv[t].ncpu \notin thread_affinity[tv[t].taf].cpu_set
    /\ tv' = [tv EXCEPT ![t].ncpu = NextNcpu(@)]
    /\ UNCHANGED <<thread_affinity, assigned>>
    /\ UNCHANGED <<sigvars, regvars, protovars>>

\* the end of the loop: taf->lcpu, SCMutexUnlock, return ncpu
AffinityReturn(t) ==
    /\ tv[t].pc = "loop"
    /\ tv[t].ncpu \in thread_affinity[tv[t].taf].cpu_set
    /\ thread_affinity' = [thread_affinity EXCEPT
                              ![tv[t].taf].lcpu = NextNcpu(tv[t].ncpu),
                              ![tv[t].taf].taf_mutex = "free"]
    /\ assigned' = [assigned EXCEPT ![tv[t].taf] = Append(@, tv[t].ncpu)]
    /\ tv' = [tv EXCEPT ![t] = ThreadIdle]
    /\ UNCHANGED <<sigvars, regvars, protovars>>

(***************************************************************************)
(* SCProtoNameInit, line by line.                                          *)
(***************************************************************************)
\* fopen(PROTO_FILE): the file opens or it does not
ProtoFopen ==
    /\ proto_fp.st = "closed"
    /\ \E st \in {"open", "nofile"} : proto_fp' = [proto_fp EXCEPT !.st = st]
    /\ UNCHANGED known_proto
    /\ UNCHANGED <<sigvars, regvars, tafvars>>

\* fgets and the body of the loop
ProtoReadLine ==
    /\ proto_fp.st = "open"
    /\ proto_fp.nlines < MaxLines
    /\ \E line \in ProtoLines :
          \E r \in ProtoLine(known_proto, line) :
              /\ known_proto' = r.table
              /\ proto_fp' = [st |-> IF r.fault THEN "fault" ELSE "open",
                              nlines |-> proto_fp.nlines + 1,
                              line |-> line]
    /\ UNCHANGED <<sigvars, regvars, tafvars>>

\* the end of the file: fclose
ProtoFclose ==
    /\ proto_fp.st = "open"
    /\ proto_fp' = [proto_fp EXCEPT !.st = "loaded"]
    /\ UNCHANGED known_proto
    /\ UNCHANGED <<sigvars, regvars, tafvars>>

\* rules over every keyword
Next ==
    \/ DetectContentSetup(LongPatterns, BOOLEAN)
    \/ DetectUricontentSetup(LongPatterns)
    \/ DetectPcreSetup
    \/ HttpModifierKeyword
    \/ RelModifierKeyword
    \/ FastPatternKeyword(FPArgs)
    \/ SigInitDone
    \/ SigInitNext

Spec == Init /\ [][Next]_vars

\* rules of content and fast_pattern keywords over every chop argument
NextChop ==
    \/ DetectContentSetup(ContentPatterns, BOOLEAN)
    \/ FastPatternKeyword(ChopArgs)
    \/ SigInitDone
    \/ SigInitNext

SpecChop == Init /\ [][NextChop]_vars

\* rules of content and fast_pattern keywords over the argument texts
NextArg ==
    \/ DetectContentSetup(LongPatterns, BOOLEAN)
    \/ FastPatternKeyword(GrammarArgs)
    \/ SigInitDone
    \/ SigInitNext

SpecArg == Init /\ [][NextArg]_vars

\* rules of content and fast_pattern keywords, built and searched
NextMpm ==
    \/ DetectContentSetup(MpmPatterns, {FALSE})
    \/ FastPatternKeyword(MpmArgs)
    \/ SigInitDone
    \/ SigGroupBuild
    \/ PacketPatternSearch
    \/ SigInitNext

SpecMpm == Init /\ [][NextMpm]_vars

\* the registry on its own
NextRegistry ==
    \/ SupportSigMatchTypeCall(RegTypes)
    \/ SupportSigMatchListCall(RegLists)
    \/ SupportSigMatchTypesCall

SpecRegistry == Init /\ [][NextRegistry]_vars

\* the registry, and rules of content and fast_pattern keywords with the
\* modifiers
NextReg ==
    \/ SupportSigMatchListCall({PMATCH})
    \/ SupportSigMatchTypesCall
    \/ DetectContentSetup(ContentPatterns, BOOLEAN)
    \/ HttpModifierKeyword
    \/ RelModifierKeyword
    \/ FastPatternKeyword(FPArgs)
    \/ SigInitDone
    \/ SigInitNext

SpecReg == Init /\ [][NextReg]_vars

\* the threads of the families taking their cpus
NextTaf ==
    \/ AffinitySetupLoadFromConfig
    \/ \E t \in Threads : AffinityLock(t)
    \/ \E t \in Threads : AffinityLoop(t)
    \/ \E t \in Threads : AffinityReturn(t)

SpecTaf == Init /\ [][NextTaf]_vars

\* the same, every thread going on while it can
SpecTafFair ==
    /\ Init
    /\ [][NextTaf]_vars
    /\ \A t \in Threads : WF_vars(AffinityLoop(t) \/ AffinityReturn(t))

\* the load of the protocol names
NextProto ==
    \/ ProtoFopen
    \/ ProtoReadLine
    \/ ProtoFclose

SpecProto == Init /\ [][NextProto]_vars

TypeOK ==
    /\ sig \in {"parsing", "loaded", "rejected"}
    /\ sm_cnt \in 0..MaxKeywords
    /\ nkeywords \in 0..MaxKeywords
    /\ mpm_ctx.built \in BOOLEAN
    /\ pmq.done \in BOOLEAN
    /\ pmq.hits \in 0..1
    /\ pmq.done => mpm_ctx.built
    /\ \A sm \in AllSM(sm_lists) :
          /\ sm.idx \in 0..(sm_cnt - 1)
          /\ sm.fp_chop_offset \in 0..(HALF - 1)
          /\ sm.fp_chop_len \in 0..(HALF - 1)

(***************************************************************************)
(* Vocabulary of the properties.                                           *)
(***************************************************************************)
\* the content keywords of list l
ContentsOf(l) == { sm_lists[l][i] : i \in { j \in DOMAIN sm_lists[l] : IsContent(sm_lists[l][j]) } }

\* the content keywords of the signature
AllContents == { sm \in AllSM(sm_lists) : IsContent(sm) }

\* the content keyword a fast_pattern written now is about: of the content
\* keywords that stand last in their lists, the one added last (NULL when the
\* rule has none so far)
LastContent(lists) ==
    LET hits(l) == { i \in DOMAIN lists[l] : IsContent(lists[l][i]) }
        tail(l) == CHOOSE i \in hits(l) : \A j \in hits(l) : j <= i
        c == { lists[l][tail(l)].idx : l \in { m \in DOMAIN lists : hits(m) # {} } }
    IN  IF c = {} THEN NULL ELSE CHOOSE k \in c : \A j \in c : j <= k

\* the keyword that ran last is a fast_pattern whose argument is of the form
LastIsFastPattern == last.op = "fast_pattern"
LastIsBare == LastIsFastPattern /\ last.arg = ArgEmpty
LastIsOnly == LastIsFastPattern /\ last.arg = ArgOnly
LastIsChop == LastIsFastPattern /\ last.arg # ArgEmpty /\ PcreExec(last.arg) = 4

\* the numbers written in the chop argument that ran last
LastChopOffset == MatchChop(last.arg)[1]
LastChopLength == MatchChop(last.arg)[2]

\* the decimal number v (a pair <<hi, lo>>) exceeds the small natural n
Exceeds(v, n) == v[1] > 0 \/ v[2] > n
\* the sum of the decimal numbers v and w exceeds the small natural n
SumExceeds(v, w, n) == v[1] > 0 \/ w[1] > 0 \/ v[2] + w[2] > n

Min(a, b) == IF a <= b THEN a ELSE b

(***************************************************************************)
(* C1 (as stated): in a loaded signature, every list that holds a content  *)
(* keyword has exactly one content keyword that carries FAST_PATTERN,      *)
(* whatever fast_pattern keywords the rule had.                            *)
(***************************************************************************)
C1_ExactlyOnePerList ==
    sig = "loaded" =>
        \A l \in SMLists :
            ContentsOf(l) # {} =>
                Cardinality({ sm \in ContentsOf(l) : FAST_PATTERN \in sm.flags }) = 1

(***************************************************************************)
(* C1 (amended): in a loaded signature, the content keywords of a list     *)
(* that carry FAST_PATTERN are exactly those a fast_pattern keyword of the *)
(* rule was accepted on: none without a fast_pattern keyword, one when the *)
(* rule marked one keyword of the list, several when it marked several.    *)
(***************************************************************************)
C1_MarkedExactly ==
    sig = "loaded" =>
        \A l \in SMLists :
            { sm.idx : sm \in { x \in ContentsOf(l) : FAST_PATTERN \in x.flags } }
                = { sm.idx : sm \in { x \in ContentsOf(l) : x.idx \in marked } }

\* a loaded signature with two content keywords in one list, one of them
\* marked by the rule and one not
C1_Witness ==
    /\ sig = "loaded"
    /\ \E l \in SMLists :
          /\ \E sm \in ContentsOf(l) : sm.idx \in marked
          /\ \E sm \in ContentsOf(l) : sm.idx \notin marked

(***************************************************************************)
(* C2 (as stated): a keyword that carries FAST_PATTERN_CHOP has            *)
(* fp_chop_offset + fp_chop_len <= min(65535, content_len), and a chop     *)
(* argument whose offset or length or sum exceeds 65535, or whose sum      *)
(* exceeds the length of the pattern, makes the signature fail to load.    *)
(***************************************************************************)
C2_ChopBound ==
    /\ \A sm \in AllContents :
          FAST_PATTERN_CHOP \in sm.flags =>
              sm.fp_chop_offset + sm.fp_chop_len <= Min(FP_LIMIT, sm.content_len)
    /\ (/\ LastIsChop
        /\ LastContent(sm_lists) # NULL
        /\ \/ Exceeds(LastChopOffset, FP_LIMIT)
           \/ Exceeds(LastChopLength, FP_LIMIT)
           \/ SumExceeds(LastChopOffset, LastChopLength, FP_LIMIT)
           \/ SumExceeds(LastChopOffset, LastChopLength,
                         SMAt(sm_lists, LastContent(sm_lists)).content_len))
       => (last.ret = -1 /\ sig = "rejected")


\* a step that parses a fast_pattern keyword
FastPatternStep == nkeywords' = nkeywords + 1 /\ last'.op = "fast_pattern"

\* the keyword a fast_pattern parsed last was about
LastTarget == SMAt(sm_lists, LastContent(sm_lists))
HasTarget == LastContent(sm_lists) # NULL

ChopFits(cd, o, l) == ~SumExceeds(o, l, Min(FP_LIMIT, cd.content_len))

(***************************************************************************)
(* C5 (as stated): on a negated content keyword with no relative modifier, *)
(* a bare fast_pattern and a fast_pattern:<offset>,<length> that fits the  *)
(* pattern are accepted; the keyword keeps NEGATED, gets FAST_PATTERN and  *)
(* not FAST_PATTERN_ONLY, and gets FAST_PATTERN_CHOP with the offset and   *)
(* the length written in the rule exactly when the chop form was used (the *)
(* chop fields stay 0 otherwise).                                          *)
(***************************************************************************)
C5_NegatedAccepted ==
    [][ (FastPatternStep /\ HasTarget /\ LastTarget.flags = {NEGATED}) =>
          LET pre == LastTarget
              post == SMAt(sm_lists', pre.idx)
              arg == last'.arg
          IN  /\ arg = ArgEmpty =>
                    /\ last'.ret = 0
                    /\ post = [pre EXCEPT !.flags = {NEGATED, FAST_PATTERN}]
                    /\ post.fp_chop_offset = 0 /\ post.fp_chop_len = 0
              /\ (arg # ArgEmpty /\ PcreExec(arg) = 4) =>
                    /\ ChopFits(pre, MatchChop(arg)[1], MatchChop(arg)[2])
                          => last'.ret = 0
                    /\ last'.ret = 0 =>
                          /\ post.flags = {NEGATED, FAST_PATTERN, FAST_PATTERN_CHOP}
                          /\ IntOf(post.fp_chop_offset) = MatchChop(arg)[1]
                          /\ IntOf(post.fp_chop_len) = MatchChop(arg)[2]
      ]_vars

C8_StampByForm ==
    [][ (FastPatternStep /\ HasTarget /\ LastTarget.flags = {}) =>
          LET pre == LastTarget
              post == SMAt(sm_lists', pre.idx)
              arg == last'.arg
          IN  /\ arg = ArgEmpty =>
                    /\ last'.ret = 0
                    /\ post = [pre EXCEPT !.flags = {FAST_PATTERN}]
                    /\ post.fp_chop_offset = 0 /\ post.fp_chop_len = 0
              /\ arg = ArgOnly =>
                    /\ last'.ret = 0
                    /\ post = [pre EXCEPT !.flags = {FAST_PATTERN, FAST_PATTERN_ONLY}]
                    /\ post.fp_chop_offset = 0 /\ post.fp_chop_len = 0
              /\ (arg # ArgEmpty /\ PcreExec(arg) = 4 /\ last'.ret = 0) =>
                    /\ post.flags = {FAST_PATTERN, FAST_PATTERN_CHOP}
                    /\ IntOf(post.fp_chop_offset) = MatchChop(arg)[1]
                    /\ IntOf(post.fp_chop_len) = MatchChop(arg)[2]
      ]_vars


C10_LastWriterWins ==
    (LastIsFastPattern /\ last.ret = 0 /\ HasTarget) =>
        \A sm \in ContentsOf(ListOf(sm_lists, LastTarget.idx)) :
            (sm.idx \in marked /\ sm.idx # LastTarget.idx)
                => FAST_PATTERN \notin sm.flags

(***************************************************************************)
(* C10 (amended): fast_pattern keywords on several content keywords of a   *)
(* list all stay in effect: a later fast_pattern keyword stamps its own    *)
(* keyword and takes no fast-pattern flag off a keyword marked earlier, so *)
(* every marked keyword carries FAST_PATTERN.                              *)
(***************************************************************************)
C10_MarkedKeepFastPattern ==
    [][ FastPatternStep =>
          /\ \A sm \in AllContents :
                /\ (sm.flags \cap FPFlags) \subseteq SMAt(sm_lists', sm.idx).flags
                /\ sm.idx \in marked => sm.idx \in marked'
          /\ \A k \in marked' : FAST_PATTERN \in SMAt(sm_lists', k).flags
      ]_vars

\* content; fast_pattern; content; fast_pattern;  both keywords of the
\* payload list are marked and both carry FAST_PATTERN
C10_Witness ==
    /\ LastIsFastPattern
    /\ last.ret = 0
    /\ \E a, b \in ContentsOf(PMATCH) :
          /\ a.idx # b.idx
          /\ {a.idx, b.idx} \subseteq marked
          /\ FAST_PATTERN \in a.flags
          /\ FAST_PATTERN \in b.flags


(***************************************************************************)
(* C11: when every content keyword of the payload list so far carries      *)
(* FAST_PATTERN and a bare fast_pattern follows the content keyword just   *)
(* written, the fast_pattern is accepted and every content keyword of the  *)
(* payload list carries FAST_PATTERN; the end of the rule keeps the lists, *)
(* so a rule whose content keywords are each followed by a bare            *)
(* fast_pattern loads with all of them flagged.                            *)
(***************************************************************************)
C11_EachOwnDirective ==
    [][ /\ (/\ FastPatternStep
            /\ last'.arg = ArgEmpty
            /\ last.op = "content"
            /\ \A sm \in ContentsOf(PMATCH) :
                  sm.idx # LastContent(sm_lists) => FAST_PATTERN \in sm.flags)
           => /\ last'.ret = 0
              /\ sig' = "parsing"
              /\ \A i \in DOMAIN sm_lists'[PMATCH] :
                    IsContent(sm_lists'[PMATCH][i])
                        => FAST_PATTERN \in sm_lists'[PMATCH][i].flags
        /\ (sig = "parsing" /\ sig' = "loaded") => sm_lists' = sm_lists
      ]_vars

\* content:"/one/"; fast_pattern; content:boo; fast_pattern;  has loaded
C11_Witness ==
    /\ sig = "loaded"
    /\ nkeywords = 4
    /\ Len(sm_lists[PMATCH]) = 2
    /\ \A i \in 1..2 :
          /\ sm_lists[PMATCH][i].type = "DETECT_CONTENT"
          /\ sm_lists[PMATCH][i].flags = {FAST_PATTERN}
    /\ marked = {0, 1}

(***************************************************************************)
(* C13: a content keyword carries a fast-pattern flag only if a            *)
(* fast_pattern keyword of the rule was accepted on it; so a signature     *)
(* with content keywords and no fast_pattern keyword loads with no content *)
(* keyword carrying FAST_PATTERN.                                          *)
(***************************************************************************)
C13_OnlyByDirective ==
    /\ \A sm \in AllContents :
          (sm.flags \cap FPFlags) # {} => sm.idx \in marked
    /\ (sig = "loaded" /\ marked = {}) =>
          \A sm \in AllContents : FAST_PATTERN \notin sm.flags

\* two content keywords, no fast_pattern keyword: loaded, none flagged
C13_Witness ==
    /\ sig = "loaded"
    /\ marked = {}
    /\ nkeywords = 2
    /\ Len(sm_lists[PMATCH]) = 2
    /\ \A i \in 1..2 : sm_lists[PMATCH][i].flags = {}

\* the argument is of one of the three forms of the grammar: empty, "only"
\* within optional whitespace, or two runs of digits around a comma with
\* optional whitespace around each
WellFormed(arg) ==
    LET words == SelectSeq(arg, LAMBDA t : t.t # "ws")
    IN  \/ arg = << >>
        \/ (Len(words) = 1 /\ words[1].t = "only")
        \/ (/\ Len(words) = 3
            /\ words[1].t = "num" /\ words[2].t = "," /\ words[3].t = "num")

(***************************************************************************)
(* C14 (as stated): a fast_pattern keyword is accepted only with an        *)
(* argument of the grammar (empty, "only", "<digits>,<digits>", with       *)
(* optional whitespace); any other argument text makes the signature fail  *)
(* to load and stamps nothing.                                             *)
(***************************************************************************)
C14_ArgumentGrammar ==
    [][ (FastPatternStep /\ HasTarget /\ ~WellFormed(last'.arg)) =>
          /\ last'.ret = -1
          /\ sig' = "rejected"
          /\ sm_lists' = sm_lists
      ]_vars


(***************************************************************************)
(* Vocabulary of the properties of the pattern-matcher stage.              *)
(***************************************************************************)
\* the positions of list l that hold content keywords, and those among them
\* that a fast_pattern keyword of the rule was accepted on
ContentPos(l) == { i \in DOMAIN sm_lists[l] : IsContent(sm_lists[l][i]) }
MarkedPos(l) == { i \in ContentPos(l) : sm_lists[l][i].idx \in marked }

\* the bytes of keyword cd that count as its fast pattern: the whole pattern,
\* or bytes [offset, offset + length) when it is chopped
SelectedBytes(cd) ==
    IF FAST_PATTERN_CHOP \in cd.flags
    THEN [k \in 1..cd.fp_chop_len |-> cd.content[cd.fp_chop_offset + k]]
    ELSE cd.content

\* pattern a is at least as strong as pattern b: longer, or as long with at
\* least as many different bytes
AsStrong(a, b) ==
    \/ Len(a) > Len(b)
    \/ (Len(a) = Len(b) /\ Cardinality(Bytes(a)) >= Cardinality(Bytes(b)))

\* the strongest keyword of the positions pos of list l, the earliest among
\* equals
Strongest(l, pos) ==
    CHOOSE i \in pos :
        \A j \in pos :
            /\ AsStrong(sm_lists[l][i].content, sm_lists[l][j].content)
            /\ (AsStrong(sm_lists[l][j].content, sm_lists[l][i].content) => i <= j)

\* the keyword of list l that is to be the fast pattern of the signature:
\* the strongest marked keyword, or without marked keywords the strongest
ExpectedPos(l) ==
    IF MarkedPos(l) # {} THEN Strongest(l, MarkedPos(l))
    ELSE Strongest(l, ContentPos(l))

ExpectedBytes(l) == SelectedBytes(sm_lists[l][ExpectedPos(l)])

\* the patterns of the payload list, in the order of the rule
PayloadPatterns == [i \in DOMAIN sm_lists[PMATCH] |-> sm_lists[PMATCH][i].content]

C15_SearchSound ==
    (pmq.done /\ ContentPos(PMATCH) # {}
        /\ Occurs(ExpectedBytes(PMATCH), pmq.buf))
    => pmq.hits = 1

\* a chopped fast pattern found in a payload that does not hold the whole
\* pattern
C15_Witness ==
    /\ pmq.done
    /\ pmq.hits = 1
    /\ ContentPos(PMATCH) # {}
    /\ FAST_PATTERN_CHOP \in sm_lists[PMATCH][ExpectedPos(PMATCH)].flags
    /\ NEGATED \notin sm_lists[PMATCH][ExpectedPos(PMATCH)].flags
    /\ ~Occurs(sm_lists[PMATCH][ExpectedPos(PMATCH)].content, pmq.buf)

(***************************************************************************)
(* C16: a payload that does not hold the bytes selected as the fast        *)
(* pattern of the signature gets zero hits, also when it holds another     *)
(* content pattern of the signature or a near miss of the selected one.    *)
(***************************************************************************)
C16_SearchComplete ==
    (pmq.done /\ ContentPos(PMATCH) # {}
        /\ ~Occurs(ExpectedBytes(PMATCH), pmq.buf))
    => pmq.hits = 0

\* content:strings3; content:strings4_imp; fast_pattern;  searched with the
\* payload "no_strings4 _imp ... strings3": no hit
C16_Witness ==
    /\ pmq.done
    /\ pmq.hits = 0
    /\ pmq.buf = B_nearmiss
    /\ PayloadPatterns = << P_strings3, P_strings4_imp >>
    /\ MarkedPos(PMATCH) = {2}
    /\ Occurs(P_strings3, pmq.buf)

(***************************************************************************)
(* C17: when one content keyword of the list is marked by a fast_pattern   *)
(* keyword, its bytes are the pattern in the matcher even when another     *)
(* content keyword of the list is stronger: a payload that holds the       *)
(* stronger pattern and not the marked one gets zero hits, a payload that  *)
(* holds the marked one gets exactly one.                                  *)
(***************************************************************************)
C17_ExplicitOverrides ==
    (mpm_ctx.built /\ Cardinality(MarkedPos(PMATCH)) = 1) =>
        LET cd == sm_lists[PMATCH][CHOOSE i \in MarkedPos(PMATCH) : TRUE]
        IN  /\ mpm_ctx.needles[PMATCH] = { SelectedBytes(cd) }
            /\ pmq.done =>
                  pmq.hits = IF Occurs(SelectedBytes(cd), pmq.buf) THEN 1 ELSE 0

\* content:strings3; fast_pattern; content:strings_string5;  searched with a
\* payload that holds strings_string5 and not strings3: no hit
C17_Witness ==
    /\ pmq.done
    /\ pmq.hits = 0
    /\ PayloadPatterns = << P_strings3, P_strings_string5 >>
    /\ MarkedPos(PMATCH) = {1}
    /\ sm_lists[PMATCH][1].flags = {FAST_PATTERN}
    /\ Occurs(P_strings_string5, pmq.buf)

\* the rule  content:strings4_imp; content:strings_string5;  without a
\* fast_pattern keyword, built
Scenario4 ==
    /\ mpm_ctx.built
    /\ marked = {}
    /\ PayloadPatterns = << P_strings4_imp, P_strings_string5 >>

(***************************************************************************)
(* C18 (as stated): for content:strings4_imp; content:strings_string5;     *)
(* without a fast_pattern keyword, strings4_imp is selected: a payload     *)
(* that holds strings4_imp and not strings_string5 gets exactly one hit, a *)
(* payload that holds neither gets zero.                                   *)
(***************************************************************************)
C18_Selects4Imp ==
    Scenario4 =>
        /\ mpm_ctx.needles[PMATCH] = { P_strings4_imp }
        /\ (pmq.done /\ Occurs(P_strings4_imp, pmq.buf)
                /\ ~Occurs(P_strings_string5, pmq.buf))
              => pmq.hits = 1
        /\ (pmq.done /\ ~Occurs(P_strings4_imp, pmq.buf)
                /\ ~Occurs(P_strings_string5, pmq.buf))
              => pmq.hits = 0

(***************************************************************************)
(* C18 (amended): for content:strings4_imp; content:strings_string5;       *)
(* without a fast_pattern keyword, strings_string5 is selected: a payload  *)
(* that holds strings_string5 gets exactly one hit; a payload that holds   *)
(* strings4_imp and not strings_string5, or neither, gets zero.            *)
(***************************************************************************)
C18_SelectsString5 ==
    Scenario4 =>
        /\ mpm_ctx.needles[PMATCH] = { P_strings_string5 }
        /\ pmq.done =>
              pmq.hits = IF Occurs(P_strings_string5, pmq.buf) THEN 1 ELSE 0

\* the rule searched with a payload that holds strings4_imp and not
\* strings_string5: no hit
C18_Witness ==
    /\ Scenario4
    /\ pmq.done
    /\ pmq.buf = B_strings4_imp
    /\ pmq.hits = 0

(***************************************************************************)
(* C19: without a fast_pattern keyword in the list, the whole pattern of   *)
(* the strongest content keyword is the pattern in the matcher; with       *)
(* strings_string5 among the contents that is strings_string5: a payload   *)
(* that holds it gets exactly one hit, a payload that holds neither it nor *)
(* strings4_imp gets zero.                                                 *)
(***************************************************************************)
C19_AutoStrongest ==
    (mpm_ctx.built /\ marked = {} /\ ContentPos(PMATCH) # {}) =>
        LET best == sm_lists[PMATCH][Strongest(PMATCH, ContentPos(PMATCH))].content
        IN  /\ mpm_ctx.needles[PMATCH] = { best }
            /\ (\E i \in ContentPos(PMATCH) : PayloadPatterns[i] = P_strings_string5)
                  => best = P_strings_string5
            /\ pmq.done => pmq.hits = IF Occurs(best, pmq.buf) THEN 1 ELSE 0

\* content:strings3; content:strings4_imp; content:strings_string5;  searched
\* with a payload that holds strings_string5 and not strings4_imp: one hit
C19_Witness ==
    /\ pmq.done
    /\ marked = {}
    /\ PayloadPatterns = << P_strings3, P_strings4_imp, P_strings_string5 >>
    /\ pmq.buf = B_both5
    /\ pmq.hits = 1

(***************************************************************************)
(* Vocabulary of the claims on the registry.                               *)
(***************************************************************************)
\* the values held by the nodes of a list
SetOf(list) == { list[i] : i \in DOMAIN list }
\* no value is held by two nodes
EachOnce(list) == \A i, j \in DOMAIN list : list[i] = list[j] => i = j
\* list "after" is list "before" with nodes put at its head, none of them
\* holding a value that "before" held
GrownAtHead(before, after) ==
    /\ Len(after) >= Len(before)
    /\ SubSeq(after, Len(after) - Len(before) + 1, Len(after)) = before
    /\ \A i \in 1..(Len(after) - Len(before)) : after[i] \notin SetOf(before)
\* the registry holds the seven sm types and the seven sm list ids
RegistryFull ==
    /\ SetOf(sm_fp_support_smtype_list) = ContentTypes
    /\ SetOf(sm_fp_support_smlist_list) = SMLists

(***************************************************************************)
(* C21: after SupportFastPatternForSigMatchTypes the registry holds        *)
(* exactly the seven sm types (content, uricontent, http_client_body,      *)
(* http_header, http_raw_header, http_method, http_cookie) and exactly the *)
(* seven sm list ids, each once; a registration only ever puts values that *)
(* were not registered at the head of a list, so that registering a type   *)
(* or list id that is registered, or calling                               *)
(* SupportFastPatternForSigMatchTypes again, leaves both lists as they     *)
(* were.                                                                   *)
(***************************************************************************)
C21_Registry ==
    [][ /\ GrownAtHead(sm_fp_support_smtype_list, sm_fp_support_smtype_list')
        /\ GrownAtHead(sm_fp_support_smlist_list, sm_fp_support_smlist_list')
        /\ EachOnce(sm_fp_support_smtype_list')
        /\ EachOnce(sm_fp_support_smlist_list')
        /\ SupportSigMatchTypesCall =>
              /\ SetOf(sm_fp_support_smtype_list') = ContentTypes
              /\ SetOf(sm_fp_support_smlist_list') = SMLists
              /\ Len(sm_fp_support_smtype_list') = 7
              /\ Len(sm_fp_support_smlist_list') = 7
        /\ (SupportSigMatchTypesCall /\ RegistryFull) => UNCHANGED regvars
      ]_vars

\* http_cookie and its list were registered on their own first, then
\* SupportFastPatternForSigMatchTypes ran: they are the nodes at the end
C21_Witness ==
    /\ RegistryFull
    /\ Len(sm_fp_support_smtype_list) = 7
    /\ Len(sm_fp_support_smlist_list) = 7
    /\ sm_fp_support_smtype_list[7] = "DETECT_AL_HTTP_COOKIE"
    /\ sm_fp_support_smlist_list[7] = HCDMATCH

\* the registry gives fast pattern support to a SigMatch of the signature:
\* a registered list holds a SigMatch of a registered type
RegistrySupports(lists) ==
    \E l \in SetOf(sm_fp_support_smlist_list) \cap SMLists :
        \E i \in DOMAIN lists[l] :
            lists[l][i].type \in SetOf(sm_fp_support_smtype_list)

(***************************************************************************)
(* C22: the lists in which a fast_pattern keyword finds the content        *)
(* keyword it applies to are the lists the registry holds: a fast_pattern  *)
(* is accepted only on a keyword of a registered type in a registered      *)
(* list, and a bare fast_pattern on such a keyword, when it carries no     *)
(* flag, is accepted.                                                      *)
(***************************************************************************)
C22_RegistryDecides ==
    [][ FastPatternStep =>
          /\ last'.ret = 0 =>
                /\ ListOf(sm_lists, LastContent(sm_lists))
                      \in SetOf(sm_fp_support_smlist_list)
                /\ LastTarget.type \in SetOf(sm_fp_support_smtype_list)
          /\ (/\ RegistrySupports(sm_lists)
              /\ last'.arg = ArgEmpty
              /\ \A sm \in AllSM(sm_lists) : sm.flags = {})
                => last'.ret = 0
      ]_vars

(***************************************************************************)
(* C23: when DetectFastPatternSetup returns -1, whatever the reason        *)
(* (negated content with a relative modifier, fast_pattern:only on negated *)
(* content or with a relative modifier, a chop that exceeds a limit, an    *)
(* argument that does not parse, no content keyword before it), every      *)
(* SigMatch of the signature, the keyword it was about included, has the   *)
(* flags, fp_chop_offset and fp_chop_len it had before the call, and the   *)
(* registry is as it was.                                                  *)
(***************************************************************************)
C23_RejectionChangesNothing ==
    [][ (FastPatternStep /\ last'.ret = -1) =>
          /\ sm_lists' = sm_lists
          /\ sm_cnt' = sm_cnt
          /\ sm_fp_support_smtype_list' = sm_fp_support_smtype_list
          /\ sm_fp_support_smlist_list' = sm_fp_support_smlist_list
      ]_vars

\* content:one; fast_pattern; fast_pattern:3,4; with the registry filled:
\* the chop exceeds the pattern and the keyword keeps what the first
\* fast_pattern left
C23_Witness ==
    /\ RegistryFull
    /\ last.op = "fast_pattern"
    /\ last.ret = -1
    /\ last.arg = ArgChop(N3, N4)
    /\ HasTarget
    /\ LastTarget.content_len = 3
    /\ LastTarget.flags = {FAST_PATTERN}
    /\ LastTarget.fp_chop_offset = 0
    /\ LastTarget.fp_chop_len = 0

\* no list of the signature holds a keyword that bears content
NoContentKeyword(lists) ==
    \A l \in SMLists : \A i \in DOMAIN lists[l] : ~IsContent(lists[l][i])

(***************************************************************************)
(* C24: a fast_pattern keyword with no content-bearing keyword before it   *)
(* in the payload, uri, client body, header, raw header, method or cookie  *)
(* list (the seven lists are empty, or what they hold is of no supported   *)
(* type) returns -1 for every argument, and the signature fails to load.   *)
(***************************************************************************)
C24_NoContentRejected ==
    [][ (FastPatternStep /\ NoContentKeyword(sm_lists)) =>
          /\ last'.ret = -1
          /\ sig' = "rejected"
          /\ sm_lists' = sm_lists
      ]_vars

\* pcre:...; fast_pattern:only; the payload list is not empty and holds no
\* content keyword
C24_Witness ==
    /\ last.op = "fast_pattern"
    /\ last.arg = ArgOnly
    /\ last.ret = -1
    /\ sig = "rejected"
    /\ Len(sm_lists[PMATCH]) = 1
    /\ sm_lists[PMATCH][1].type = "DETECT_PCRE"
    /\ NoContentKeyword(sm_lists)

(***************************************************************************)
(* C25: no keyword carries FAST_PATTERN_ONLY along with FAST_PATTERN_CHOP, *)
(* and a keyword that carries FAST_PATTERN_ONLY or FAST_PATTERN_CHOP       *)
(* carries FAST_PATTERN, after any fast_pattern keywords that were         *)
(* accepted, several of them on the same content keyword included.         *)
(***************************************************************************)
C25_FlagsConsistent ==
    \A sm \in AllSM(sm_lists) :
        /\ ~(FAST_PATTERN_ONLY \in sm.flags /\ FAST_PATTERN_CHOP \in sm.flags)
        /\ (sm.flags \cap {FAST_PATTERN_ONLY, FAST_PATTERN_CHOP}) # {}
              => FAST_PATTERN \in sm.flags

(***************************************************************************)
(* Vocabulary of the claims on the cpu affinity.                           *)
(***************************************************************************)
\* the cpus of the family that are online
OnlineCpus(f) ==
    thread_affinity[f].cpu_set \cap (0..(UtilCpuGetNumProcessorsOnline - 1))

\* how far cpu c is from cpu "from", going up and around at the processors
\* online
CyclicDistance(from, c) ==
    (c - from + UtilCpuGetNumProcessorsOnline) % UtilCpuGetNumProcessorsOnline

\* the online cpu of the family that comes first at or after lcpu, going
\* around after the last processor online
RoundRobinCpu(f) ==
    CHOOSE c \in OnlineCpus(f) :
        \A d \in OnlineCpus(f) :
            CyclicDistance(thread_affinity[f].lcpu, c)
                <= CyclicDistance(thread_affinity[f].lcpu, d)

\* a step in which a call of AffinityGetNextCPU on family f returns
ReturnStep(f) == Len(assigned'[f]) = Len(assigned[f]) + 1
Returned(f) == assigned'[f][Len(assigned'[f])]

(***************************************************************************)
(* C26: a call of AffinityGetNextCPU returns the first cpu of the family's *)
(* cpu_set at or after lcpu, going around to 0 after the last processor    *)
(* online, and leaves lcpu at that cpu plus one modulo the processors      *)
(* online; so the cpu returned is in cpu_set, lcpu stays in [0, online),   *)
(* and on a family whose set has m online cpus any m calls in a row return *)
(* each of them once, each the next one around after the one before.       *)
(***************************************************************************)
C26_RoundRobin ==
    [][ \A f \in Families :
          /\ thread_affinity'[f].lcpu \in 0..(UtilCpuGetNumProcessorsOnline - 1)
          /\ ReturnStep(f) =>
                /\ Returned(f) = RoundRobinCpu(f)
                /\ Returned(f) \in thread_affinity[f].cpu_set
                /\ thread_affinity'[f].lcpu =
                      (Returned(f) + 1) % UtilCpuGetNumProcessorsOnline
                /\ LET m == Cardinality(OnlineCpus(f))
                       n == Len(assigned'[f])
                   IN  n >= m =>
                         /\ { assigned'[f][i] : i \in (n - m + 1)..n }
                               = OnlineCpus(f)
                         /\ \A i \in (n - m + 1)..(n - 1) :
                               \A d \in OnlineCpus(f) \ {assigned'[f][i]} :
                                   CyclicDistance(assigned'[f][i], assigned'[f][i + 1])
                                       <= CyclicDistance(assigned'[f][i], d)
      ]_vars

\* detect_cpu_set with cpu: [ 2, 0 ]: three calls returned 0, 2, 0
C26_Witness ==
    /\ thread_affinity["detect_cpu_set"].cpu_set = {0, 2}
    /\ assigned["detect_cpu_set"] = << 0, 2, 0 >>
    /\ thread_affinity["detect_cpu_set"].lcpu = 1

(***************************************************************************)
(* C27: for every configuration AffinitySetupLoadFromConfig accepts, an    *)
(* entry without a 'cpu' child and a cpu list of ids at or above the       *)
(* processors online included, a thread that is in AffinityGetNextCPU      *)
(* comes out of it, and the mutex of a family that a thread holds is       *)
(* released.                                                               *)
(***************************************************************************)
C27_Terminates ==
    /\ \A t \in Threads : (tv[t].pc = "loop") ~> (tv[t].pc = "idle")
    /\ \A f \in Families :
          (thread_affinity[f].taf_mutex \in Threads)
              ~> (thread_affinity[f].taf_mutex = "free")

\* the k-th online cpu of the family, counted up from cpu 0
KthOnline(f, k) ==
    CHOOSE c \in OnlineCpus(f) :
        Cardinality({ d \in OnlineCpus(f) : d <= c }) = k

\* lcpu of the family after k calls one after the other, k at most the
\* number of its online cpus
LcpuAfter(f, k) ==
    IF k = 0 THEN 0
    ELSE (KthOnline(f, k) + 1) % UtilCpuGetNumProcessorsOnline

\* no thread is in AffinityGetNextCPU on the family
Quiet(f) == \A t \in Threads : tv[t].taf # f

(***************************************************************************)
(* C28: a thread is in the loop of AffinityGetNextCPU on a family only     *)
(* while it holds the family's taf_mutex; so however the calls of the      *)
(* threads interleave, k calls on a family whose cpu_set has at least k    *)
(* online cpus return k different cpus and leave lcpu where k calls one    *)
(* after the other leave it, and a call on one family leaves the lcpu of   *)
(* the other families alone.                                               *)
(***************************************************************************)
C28_MutexSerializes ==
    [][ /\ \A t \in Threads :
              tv'[t].pc = "loop" =>
                  thread_affinity'[tv'[t].taf].taf_mutex = t
        /\ \A f \in Families :
              /\ ReturnStep(f) =>
                    \A g \in Families \ {f} :
                        thread_affinity'[g].lcpu = thread_affinity[g].lcpu
              /\ Len(assigned'[f]) = Len(assigned[f]) =>
                    thread_affinity'[f].lcpu = thread_affinity[f].lcpu
              /\ LET k == Len(assigned'[f])
                 IN  k <= Cardinality(OnlineCpus(f)) =>
                       /\ \A i, j \in 1..k :
                             assigned'[f][i] = assigned'[f][j] => i = j
                       /\ (\A t \in Threads : tv'[t].taf # f) =>
                             thread_affinity'[f].lcpu = LcpuAfter(f, k)
      ]_vars

\* two calls on detect_cpu_set (cpu: [ 1-2 ]) and one on receive_cpu_set
\* are over, and both threads are in a call again, one on each family
C28_Witness ==
    /\ thread_affinity["detect_cpu_set"].cpu_set = {1, 2}
    /\ assigned["detect_cpu_set"] = << 1, 2 >>
    /\ thread_affinity["detect_cpu_set"].lcpu = 0
    /\ Len(assigned["receive_cpu_set"]) = 1
    /\ tv["t1"].pc = "loop" /\ tv["t1"].taf = "detect_cpu_set"
    /\ tv["t2"].pc = "loop" /\ tv["t2"].taf = "receive_cpu_set"

\* a step of SCProtoNameInit that reads a line
ProtoLineStep == proto_fp'.nlines = proto_fp.nlines + 1

\* the line stores nothing: a comment, a line without a name or without a
\* number, a number that is negative or 255 and above
ProtoLineStoresNothing(line) ==
    \/ line.comment
    \/ Len(line.fields) < 2
    \/ ProtoAtoi(line.fields[2]) < 0
    \/ ProtoAtoi(line.fields[2]) >= ProtoLimit

(***************************************************************************)
(* C29: SCProtoNameInit stores a name at the indices 0..254 of the table   *)
(* only: a line whose number is negative or 255 and above, a comment line  *)
(* and a line without a name or a number field leave known_proto as it     *)
(* was, and no store is ever made at another index.                        *)
(***************************************************************************)
C29_StoresInTable ==
    [][ /\ \A e \in known_proto' : e[1] \in 0..(ProtoLimit - 1)
        /\ (ProtoLineStep /\ ProtoLineStoresNothing(proto_fp'.line)) =>
              (known_proto' = known_proto /\ proto_fp'.st = "open")
      ]_vars

====
